---- MODULE Spec2Model ----
(***************************************************************************)
(* A model of the retrieval pipeline of school-llm:                        *)
(*   - PDFHandler.chunk_text          (backend/pdf_handler.py)             *)
(*   - OllamaClient._stream_chat/chat (backend/ai/ollama_client.py)        *)
(*   - VectorDB                       (backend/vector_db.py)               *)
(*   - QASystem.answer_question       (backend/ai/qa.py)                   *)
(* Each component has its own specification (SpecChunk, SpecStream,        *)
(* SpecIndex); the variables of the other components stay at their initial *)
(* values.  Strings are sequences of one-character strings.                *)
(***************************************************************************)
EXTENDS Integers, Sequences, FiniteSets, TLC

VARIABLES
    \* ---- PDFHandler.chunk_text ----
    text,            \* the argument of chunk_text
    chunk_size,      \* self.chunk_size
    chunk_overlap,   \* self.chunk_overlap
    start,           \* local: start offset of the next window
    chunk_id,        \* local: id given to the next chunk
    chunks,          \* local: the list being built
    cpc,             \* position in chunk_text: "loop" | "done"
    \* ---- OllamaClient._stream_chat, one entry per call ----
    st,              \* "idle" | "connecting" | "streaming" | "returned" | "raised"
    content_parts,   \* local: the fragments accumulated by the call
    result,          \* the string the call returned (when st = "returned")
    error,           \* the exception the call raised (when st = "raised")
    stream,          \* history: the lines resp.iter_lines() has yielded
    transport,       \* history: the exception requests raised, and where
    \* ---- VectorDB (ChromaDB) and the requests that use it ----
    collections,     \* the collections of the persistent client, by name
    created,         \* how many collections the client has created so far
    tpc,             \* where each request is: "idle" or the await it is at
    targ,            \* the arguments and locals of each request's call
    tres,            \* what each request's last call returned or raised
    nops,            \* how many calls have been started
    upserted,        \* history: the pdf_urls add_documents was called for
    lastAdd,         \* history: the chunks of the last add_documents that
                     \* completed, per pdf_url (<<>>: none since a delete)
    embeddings_provider,  \* self.embeddings_provider, set at construction
    \* ---- main.py: the application ----
    app,             \* lifespan: "starting" | "connected" | "ready"
    warm,            \* the warm_up task: "none" | "scheduled" | "chat" |
                     \* "done" | "warned" | "propagated"
    detail,          \* the detail of the HTTP 500 /api/ask answered with,
                     \* per chat call (<<>>: none)
    \* ---- QASystem.answer_question: the prompt ----
    qa               \* the arguments and locals of one call, with texts as
                     \* strings: pc, contexts, question, history, messages,
                     \* sources

chunkVars == <<text, chunk_size, chunk_overlap, start, chunk_id, chunks, cpc>>

streamVars == <<st, content_parts, result, error, stream, transport>>

indexVars == <<collections, created, tpc, targ, tres, nops, upserted, lastAdd>>

configVars == <<embeddings_provider>>

appVars == <<app, warm, detail>>

promptVars == <<qa>>

\* what a step of one component leaves alone: the other components, and the
\* configuration read at construction
ChunkFrame == UNCHANGED <<streamVars, indexVars, configVars, appVars, promptVars>>
StreamFrame == UNCHANGED <<chunkVars, indexVars, configVars, appVars, promptVars>>
IndexFrame == UNCHANGED <<chunkVars, streamVars, configVars, appVars, promptVars>>
AppFrame == UNCHANGED <<chunkVars, streamVars, indexVars, configVars, promptVars>>
PromptFrame == UNCHANGED <<chunkVars, streamVars, indexVars, configVars, appVars>>

vars == <<text, chunk_size, chunk_overlap, start, chunk_id, chunks, cpc,
          st, content_parts, result, error, stream, transport,
          collections, created, tpc, targ, tres, nops, upserted, lastAdd,
          embeddings_provider, app, warm, detail, qa>>

\* ------------------------------------------------------------------------
\* Bounds of the model
\* ------------------------------------------------------------------------
MaxLen == 5
MaxChunkSize == 4
MaxAffix == 2
MaxLines == 3
MaxOps == 2
MaxDocChunks == 3
MaxHistory == 3

\* ------------------------------------------------------------------------
\* Python string helpers
\* ------------------------------------------------------------------------
Max(a, b) == IF a >= b THEN a ELSE b
Min(a, b) == IF a <= b THEN a ELSE b

\* the characters str.strip() removes
Whitespace == {" ", "\n", "\t", "\r"}

RECURSIVE LStrip(_)
LStrip(s) ==
    IF s = <<>> THEN <<>>
    ELSE IF Head(s) \in Whitespace THEN LStrip(Tail(s)) ELSE s

RECURSIVE RStrip(_)
RStrip(s) ==
    IF s = <<>> THEN <<>>
    ELSE IF s[Len(s)] \in Whitespace THEN RStrip(SubSeq(s, 1, Len(s) - 1)) ELSE s

\* s.strip()
PyStrip(s) == RStrip(LStrip(s))

\* s[i] for an index i that may be negative (counted from the end)
PyIndex(s, i) == IF i >= 0 THEN s[i + 1] ELSE s[Len(s) + i + 1]

\* one bound of a slice, normalised as Python does
PyBound(s, b) == IF b < 0 THEN Max(Len(s) + b, 0) ELSE Min(b, Len(s))

\* s[a:b]
PySlice(s, a, b) ==
    IF PyBound(s, a) >= PyBound(s, b) THEN <<>>
    ELSE SubSeq(s, PyBound(s, a) + 1, PyBound(s, b))

\* ------------------------------------------------------------------------
\* OllamaClient._stream_chat
\* ------------------------------------------------------------------------
\* "".join(parts)
RECURSIVE Join(_)
Join(parts) == IF parts = <<>> THEN <<>> ELSE Head(parts) \o Join(Tail(parts))

\* the message.content of a record; <<>> when the field is missing or empty
Tokens == {<<>>, <<"a">>, <<"b">>, <<" ">>}

\* what iter_lines() can yield: a keep-alive empty line, a line that is not
\* JSON, or a JSON record {message: {content}, done}
EmptyLine == [type |-> "empty", content |-> <<>>, done |-> FALSE]
BadLine == [type |-> "bad", content |-> <<>>, done |-> FALSE]
Records == {[type |-> "json", content |-> t, done |-> d] : t \in Tokens, d \in BOOLEAN}
Lines == {EmptyLine, BadLine} \cup Records

NoException == [exc |-> "none", at |-> "none"]

\* the calls of one specification
StreamCalls == {"c1", "c2"}

\* the call of a specification that has one
FirstCall == {"c1"}

\* no call running
StreamAtRest ==
    /\ st = [c \in StreamCalls |-> "idle"]
    /\ content_parts = [c \in StreamCalls |-> <<>>]
    /\ result = [c \in StreamCalls |-> <<>>]
    /\ error = [c \in StreamCalls |-> "none"]
    /\ stream = [c \in StreamCalls |-> <<>>]
    /\ transport = [c \in StreamCalls |-> NoException]

\* line 69: except requests.exceptions.ConnectionError
OnConnectionErrorReturnsEmpty(parts) ==
    [st |-> "returned", error |-> "none", result |-> <<>>]

\* a variant that salvages the fragments as the timeout handler does
OnConnectionErrorSalvages(parts) ==
    IF parts # <<>>
    THEN [st |-> "returned", error |-> "none", result |-> PyStrip(Join(parts))]
    ELSE [st |-> "raised", error |-> "connect", result |-> <<>>]

OnConnectionError(parts) ==
    [st |-> "raised", error |-> "connect", result |-> <<>>]

\* lines 70-75: except requests.exceptions.Timeout
OnTimeoutAlwaysRaises(parts) ==
    [st |-> "raised", error |-> "timeout", result |-> <<>>]

OnTimeoutAlwaysReturns(parts) ==
    [st |-> "returned", error |-> "none", result |-> PyStrip(Join(parts))]

OnTimeout(parts) ==
    IF parts # <<>>
    THEN [st |-> "returned", error |-> "none", result |-> PyStrip(Join(parts))]
    ELSE [st |-> "raised", error |-> "timeout", result |-> <<>>]

\* an exception no except clause names leaves _stream_chat as it is
Propagate(exc) == [st |-> "raised", error |-> exc, result |-> <<>>]

\* line 76: return "".join(content_parts).strip()
OnEnd(parts) ==
    [st |-> "returned", error |-> "none", result |-> PyStrip(Join(parts))]

\* a variant that puts a fragment in front of the earlier ones
AddTokenInFront(parts, line) ==
    IF line.content # <<>> THEN <<line.content>> \o parts ELSE parts

\* lines 63-65: token = chunk.get("message", {}).get("content", "")
AddToken(parts, line) ==
    IF line.content # <<>> THEN Append(parts, line.content) ELSE parts

\* the outcome of a call: leave the function with outcome o
Leave(c, o) ==
    /\ st' = [st EXCEPT ![c] = o.st]
    /\ error' = [error EXCEPT ![c] = o.error]
    /\ result' = [result EXCEPT ![c] = o.result]

\* the accumulator outlives the call (as an attribute of the client would)
KeptParts(earlier) == earlier

\* line 53: content_parts = [], a local of the call
FreshParts(earlier) == <<>>

\* lines 51-53: a call starts with an empty accumulator
StreamChatBegin(c) ==
    /\ st[c] = "idle"
    /\ StreamFrame
    /\ st' = [st EXCEPT ![c] = "connecting"]
    /\ content_parts' = [content_parts EXCEPT ![c] = FreshParts(content_parts[c])]
    /\ UNCHANGED <<result, error, stream, transport>>

\* lines 86-108, 51-53: the caller of an ended call (returned or raised,
\* with whatever it had accumulated) calls chat again; the new invocation
\* of _stream_chat has its own locals and its own response
StreamChatAgain(c) ==
    /\ st[c] \in {"returned", "raised"}
    /\ StreamFrame
    /\ st' = [st EXCEPT ![c] = "connecting"]
    /\ content_parts' = [content_parts EXCEPT ![c] = FreshParts(content_parts[c])]
    /\ result' = [result EXCEPT ![c] = <<>>]
    /\ error' = [error EXCEPT ![c] = "none"]
    /\ stream' = [stream EXCEPT ![c] = <<>>]
    /\ transport' = [transport EXCEPT ![c] = NoException]

\* lines 55-57: requests.post raises ConnectionError (backend unreachable)
PostConnectionError(c) ==
    /\ st[c] = "connecting"
    /\ StreamFrame
    /\ transport' = [transport EXCEPT ![c] = [exc |-> "ConnectionError", at |-> "post"]]
    /\ Leave(c, OnConnectionError(content_parts[c]))
    /\ UNCHANGED <<content_parts, stream>>

\* lines 55-57: requests.post raises Timeout (no response within the timeout)
PostTimeout(c) ==
    /\ st[c] = "connecting"
    /\ StreamFrame
    /\ transport' = [transport EXCEPT ![c] = [exc |-> "Timeout", at |-> "post"]]
    /\ Leave(c, OnTimeout(content_parts[c]))
    /\ UNCHANGED <<content_parts, stream>>

\* line 58: resp.raise_for_status() raises HTTPError
PostHTTPError(c) ==
    /\ st[c] = "connecting"
    /\ StreamFrame
    /\ transport' = [transport EXCEPT ![c] = [exc |-> "HTTPError", at |-> "post"]]
    /\ Leave(c, Propagate("HTTPError"))
    /\ UNCHANGED <<content_parts, stream>>

\* lines 55-58: the response arrives with a success status
PostOK(c) ==
    /\ st[c] = "connecting"
    /\ StreamFrame
    /\ st' = [st EXCEPT ![c] = "streaming"]
    /\ UNCHANGED <<content_parts, result, error, stream, transport>>

\* lines 59-67: one iteration of `for line in resp.iter_lines()`
IterLine(c, line) ==
    /\ st[c] = "streaming"
    /\ StreamFrame
    /\ Len(stream[c]) < MaxLines
    /\ stream' = [stream EXCEPT ![c] = Append(@, line)]
    /\ CASE line.type = "empty" ->
              \* if not line: continue
              UNCHANGED <<st, content_parts, result, error>>
         [] line.type = "bad" ->
              \* json.loads(line) raises json.JSONDecodeError
              /\ Leave(c, Propagate("JSONDecodeError"))
              /\ UNCHANGED content_parts
         [] line.type = "json" /\ ~line.done ->
              /\ content_parts' = [content_parts EXCEPT ![c] = AddToken(@, line)]
              /\ UNCHANGED <<st, result, error>>
         [] line.type = "json" /\ line.done ->
              \* if chunk.get("done"): break, then line 76
              /\ content_parts' = [content_parts EXCEPT ![c] = AddToken(@, line)]
              /\ Leave(c, OnEnd(AddToken(content_parts[c], line)))
    /\ UNCHANGED transport

\* the stream closes: the for loop ends, then line 76
IterClose(c) ==
    /\ st[c] = "streaming"
    /\ StreamFrame
    /\ Leave(c, OnEnd(content_parts[c]))
    /\ UNCHANGED <<content_parts, stream, transport>>

\* iter_lines() raises Timeout (no data within the read timeout)
IterTimeout(c) ==
    /\ st[c] = "streaming"
    /\ StreamFrame
    /\ transport' = [transport EXCEPT ![c] = [exc |-> "Timeout", at |-> "iter"]]
    /\ Leave(c, OnTimeout(content_parts[c]))
    /\ UNCHANGED <<content_parts, stream>>

\* iter_lines() raises ConnectionError (the connection drops)
IterConnectionError(c) ==
    /\ st[c] = "streaming"
    /\ StreamFrame
    /\ transport' = [transport EXCEPT ![c] = [exc |-> "ConnectionError", at |-> "iter"]]
    /\ Leave(c, OnConnectionError(content_parts[c]))
    /\ UNCHANGED <<content_parts, stream>>

\* iter_lines() raises another RequestException (a broken chunked encoding)
IterOtherError(c) ==
    /\ st[c] = "streaming"
    /\ StreamFrame
    /\ transport' = [transport EXCEPT ![c] = [exc |-> "ChunkedEncodingError", at |-> "iter"]]
    /\ Leave(c, Propagate("ChunkedEncodingError"))
    /\ UNCHANGED <<content_parts, stream>>

\* ------------------------------------------------------------------------
\* main.py: /api/ask's error message, and startup
\* ------------------------------------------------------------------------
\* Messages are sequences of characters; a string U+xxxx stands for the one
\* character of that code point.
UpperCase ==
    <<"A", "B", "C", "D", "E", "F", "G", "H", "I", "J", "K", "L", "M", "N",
      "O", "P", "Q", "R", "S", "T", "U", "V", "W", "X", "Y", "Z">>

LowerCase ==
    <<"a", "b", "c", "d", "e", "f", "g", "h", "i", "j", "k", "l", "m", "n",
      "o", "p", "q", "r", "s", "t", "u", "v", "w", "x", "y", "z">>

\* str.lower()
PyLower(s) ==
    [i \in 1..Len(s) |->
        IF \E k \in 1..Len(UpperCase) : UpperCase[k] = s[i]
        THEN LowerCase[CHOOSE k \in 1..Len(UpperCase) : UpperCase[k] = s[i]]
        ELSE s[i]]

\* sub in s
Contains(s, sub) ==
    \E i \in 0..(Len(s) - Len(sub)) : SubSeq(s, i + 1, i + Len(sub)) = sub

\* ollama_client.py line 69
CannotConnectText ==
    <<"C", "a", "n", "n", "o", "t", " ", "c", "o", "n", "n", "e", "c", "t",
      " ", "t", "o", " ", "O", "l", "l", "a", "m", "a", ".", " ", "M", "a",
      "k", "e", " ", "s", "u", "r", "e", " ", "O", "l", "l", "a", "m", "a",
      " ", "i", "s", " ", "r", "u", "n", "n", "i", "n", "g", ".">>

\* ollama_client.py line 75
TimedOutText ==
    <<"O", "l", "l", "a", "m", "a", " ", "t", "i", "m", "e", "d", " ", "o",
      "u", "t", ".", " ", "T", "h", "e", " ", "m", "o", "d", "e", "l", " ",
      "m", "a", "y", " ", "b", "e", " ", "o", "v", "e", "r", "l", "o", "a",
      "d", "e", "d", " ", "U+00E2", "U+20AC", "U+201D", " ", "t", "r", "y",
      " ", "a", "g", "a", "i", "n", ".">>

\* str() of the json.JSONDecodeError json.loads raises on a line like oops
JSONDecodeErrorText ==
    <<"E", "x", "p", "e", "c", "t", "i", "n", "g", " ", "v", "a", "l", "u",
      "e", ":", " ", "l", "i", "n", "e", " ", "1", " ", "c", "o", "l", "u",
      "m", "n", " ", "1", " ", "(", "c", "h", "a", "r", " ", "0", ")">>

\* str() of the HTTPError raise_for_status raises on a 500
HTTPErrorText ==
    <<"5", "0", "0", " ", "S", "e", "r", "v", "e", "r", " ", "E", "r", "r",
      "o", "r", ":", " ", "I", "n", "t", "e", "r", "n", "a", "l", " ", "S",
      "e", "r", "v", "e", "r", " ", "E", "r", "r", "o", "r", " ", "f", "o",
      "r", " ", "u", "r", "l", ":", " ", "h", "t", "t", "p", ":", "/", "/",
      "l", "o", "c", "a", "l", "h", "o", "s", "t", ":", "1", "1", "4", "3",
      "4", "/", "a", "p", "i", "/", "c", "h", "a", "t">>

\* str() of the ChunkedEncodingError of a stream that breaks off
ChunkedEncodingErrorText ==
    <<"(", "'", "C", "o", "n", "n", "e", "c", "t", "i", "o", "n", " ", "b",
      "r", "o", "k", "e", "n", ":", " ", "I", "n", "c", "o", "m", "p", "l",
      "e", "t", "e", "R", "e", "a", "d", "(", "0", " ", "b", "y", "t", "e",
      "s", " ", "r", "e", "a", "d", ")", "'", ",", " ", "I", "n", "c", "o",
      "m", "p", "l", "e", "t", "e", "R", "e", "a", "d", "(", "0", " ", "b",
      "y", "t", "e", "s", " ", "r", "e", "a", "d", ")", ")">>

\* str(e) of the exception _stream_chat leaves with
ExceptionText(exc) ==
    CASE exc = "connect" -> CannotConnectText
      [] exc = "timeout" -> TimedOutText
      [] exc = "JSONDecodeError" -> JSONDecodeErrorText
      [] exc = "HTTPError" -> HTTPErrorText
      [] exc = "ChunkedEncodingError" -> ChunkedEncodingErrorText

\* qa.py line 84: Exception(f"Failed to answer question: {str(e)}")
FailedToAnswer(message) ==
    <<"F", "a", "i", "l", "e", "d", " ", "t", "o", " ", "a", "n", "s", "w",
      "e", "r", " ", "q", "u", "e", "s", "t", "i", "o", "n", ":", " ">> \o message

CannotReachDetail ==
    <<"C", "a", "n", "n", "o", "t", " ", "r", "e", "a", "c", "h", " ", "t",
      "h", "e", " ", "A", "I", " ", "m", "o", "d", "e", "l", ".", " ", "P",
      "l", "e", "a", "s", "e", " ", "m", "a", "k", "e", " ", "s", "u", "r",
      "e", " ", "O", "l", "l", "a", "m", "a", " ", "i", "s", " ", "r", "u",
      "n", "n", "i", "n", "g", ".">>

TooSlowDetail ==
    <<"T", "h", "e", " ", "A", "I", " ", "m", "o", "d", "e", "l", " ", "t",
      "o", "o", "k", " ", "t", "o", "o", " ", "l", "o", "n", "g", " ", "t",
      "o", " ", "r", "e", "s", "p", "o", "n", "d", ".", " ", "P", "l", "e",
      "a", "s", "e", " ", "t", "r", "y", " ", "a", "g", "a", "i", "n", " ",
      "U+2014", " ", "s", "h", "o", "r", "t", "e", "r", " ", "q", "u", "e",
      "s", "t", "i", "o", "n", "s", " ", "w", "o", "r", "k", " ", "f", "a",
      "s", "t", "e", "r", ".">>

UnexpectedFormatDetail ==
    <<"T", "h", "e", " ", "A", "I", " ", "r", "e", "t", "u", "r", "n", "e",
      "d", " ", "a", "n", " ", "u", "n", "e", "x", "p", "e", "c", "t", "e",
      "d", " ", "f", "o", "r", "m", "a", "t", ".", " ", "P", "l", "e", "a",
      "s", "e", " ", "t", "r", "y", " ", "a", "g", "a", "i", "n", ".">>

\* main.py lines 807-816, on str(e)
friendly_error(e) ==
    LET msg == PyLower(e)
    IN  IF Contains(msg, <<"c", "o", "n", "n", "e", "c", "t">>)
           \/ Contains(msg, <<"c", "o", "n", "n", "e", "c", "t", "i", "o", "n">>)
        THEN CannotReachDetail
        ELSE IF Contains(msg, <<"t", "i", "m", "e", "d", " ", "o", "u", "t">>)
                \/ Contains(msg, <<"t", "i", "m", "e", "o", "u", "t">>)
        THEN TooSlowDetail
        ELSE IF Contains(msg, <<"p", "a", "r", "s", "e">>)
                \/ Contains(msg, <<"j", "s", "o", "n">>)
        THEN UnexpectedFormatDetail
        ELSE e

\* no request answered, the application not started
AppAtRest ==
    /\ app = "starting"
    /\ warm = "none"
    /\ detail = [c \in StreamCalls |-> <<>>]

\* /api/ask, main.py lines 871-874: the chat call of answer_question raised;
\* answer_question wraps the exception (qa.py lines 82-84) and ask_question
\* answers 500 with the friendly message as detail
AskQuestionFails(c) ==
    /\ st[c] = "raised"
    /\ detail[c] = <<>>
    /\ AppFrame
    /\ detail' = [detail EXCEPT ![c] =
                     friendly_error(FailedToAnswer(ExceptionText(error[c])))]
    /\ UNCHANGED <<app, warm>>

\* lifespan, main.py lines 52-63: the configuration is validated and
\* mongodb.connect awaited; its failure is logged and startup continues
StartupConnect ==
    /\ app = "starting"
    /\ AppFrame
    /\ app' = "connected"
    /\ UNCHANGED <<warm, detail>>

\* lifespan, lines 66-73: the warm_up task is created, not awaited, and the
\* application is ready
StartupReady ==
    /\ app = "connected"
    /\ AppFrame
    /\ app' = "ready"
    /\ warm' = "scheduled"
    /\ UNCHANGED detail

\* the event loop runs the task: warm_up calls chat (ollama_client.py line 34)
WarmUpBegin ==
    /\ warm = "scheduled"
    /\ AppFrame
    /\ warm' = "chat"
    /\ UNCHANGED <<app, detail>>

\* chat runs _stream_chat for warm_up
WarmUpChat(c) == warm = "chat" /\ StreamChatBegin(c)

\* a variant of the except clause that names the connection failure only
CatchesConnectOnly(exc) == exc = "connect"

\* ollama_client.py line 38: except Exception
Catches(exc) == TRUE

\* warm_up, lines 35-37: chat returned
WarmUpReturns(c) ==
    /\ warm = "chat"
    /\ st[c] = "returned"
    /\ AppFrame
    /\ warm' = "done"
    /\ UNCHANGED <<app, detail>>

\* warm_up, lines 38-41: chat raised; the except clause logs a warning
WarmUpRaises(c) ==
    /\ warm = "chat"
    /\ st[c] = "raised"
    /\ AppFrame
    /\ warm' = IF Catches(error[c]) THEN "warned" ELSE "propagated"
    /\ UNCHANGED <<app, detail>>

\* ------------------------------------------------------------------------
\* VectorDB
\* ------------------------------------------------------------------------
\* the requests that run concurrently on the event loop
Tasks == {"t1", "t2"}

\* document identifiers, chunk texts and questions
PdfUrls == {"u1", "u2"}
ChunkTexts == {"x", "y"}
Queries == {"x"}
\* the chunk lists of the documents: of every length up to MaxDocChunks,
\* the lists that alternate the two texts, from either text
ChunkLists ==
    {[i \in 1..n |-> IF i % 2 = 1 THEN c ELSE CHOOSE d \in ChunkTexts : d # c] :
        n \in 0..MaxDocChunks, c \in ChunkTexts}

\* a variant that gives every url one name
OneCollectionName(pdf_url) == <<"pdf_", "md5", "any">>

\* create_collection_name: "pdf_" and the md5 digest of the url, which is
\* distinct for distinct urls of the model
create_collection_name(pdf_url) == <<"pdf_", "md5", pdf_url>>

\* the vector the embedding model gives a text
Embed(t) == <<"embedding of", t>>

\* ollama_client.py line 119: the bodies /api/embeddings may answer a prompt
\* with: one that carries the embedding, and one without the field
ReplyBodies(prompt) == {[embedding |-> Embed(prompt)], [error |-> "no embedding"]}

\* the bodies answering one request per text, in the order of the requests
ReplySeqs(texts) ==
    {r \in [1..Len(texts) -> UNION {ReplyBodies(texts[i]) : i \in 1..Len(texts)}] :
        \A i \in 1..Len(texts) : r[i] \in ReplyBodies(texts[i])}

\* ollama_client.py line 123: data.get("embedding") or []
EmbeddingOf(data) == IF "embedding" \in DOMAIN data THEN data.embedding ELSE <<>>

\* a variant that puts each new vector in front of the earlier ones
CollectInFront(results, embedding) == <<embedding>> \o results

\* ollama_client.py line 124: results.append(embedding)
Collect(results, embedding) == Append(results, embedding)

\* ollama_client.py lines 116-125: the loop of embeddings(), from the i-th
\* text on; replies[i] answers the request made for texts[i]
RECURSIVE OllamaEmbeddingsFrom(_, _, _, _)
OllamaEmbeddingsFrom(texts, replies, i, results) ==
    IF i > Len(texts) THEN results
    ELSE OllamaEmbeddingsFrom(texts, replies, i + 1,
                              Collect(results, EmbeddingOf(replies[i])))

\* vector_db.py lines 54-59: embedding_model.encode on the whole batch, and
\* one list per row of its result
LocalEmbeddings(texts) == [i \in 1..Len(texts) |-> Embed(texts[i])]

\* get_embeddings, lines 47-59, when it returns
get_embeddings(provider, texts, replies) ==
    IF provider = "ollama" THEN OllamaEmbeddingsFrom(texts, replies, 1, <<>>)
    ELSE LocalEmbeddings(texts)

\* what the embedding backend may answer a get_embeddings call with
EmbeddingReplies(provider, texts) ==
    IF provider = "ollama" THEN ReplySeqs(texts) ELSE {<<>>}

\* get_embeddings can return: the provider is one of the two (otherwise
\* embedding_model is None and line 52 raises)
ProviderReady(provider) == provider \in {"ollama", "sentence_transformers"}

\* the exception get_embeddings raises: line 52, or the backend's failure
EmbedError(provider) ==
    IF ProviderReady(provider) THEN "embedding error"
    ELSE "Sentence-Transformers model not initialized"

\* the call's locals once get_embeddings has returned
Embedded(a, texts, replies) ==
    [a EXCEPT !.texts = texts, !.replies = replies,
              !.embeddings = get_embeddings(embeddings_provider, texts, replies),
              !.embedded = TRUE]

\* the cosine distance of two embedded texts, on a scale of 0 (same) and 1
Distance(q, t) == IF q = t THEN 0 ELSE 1

\* the arguments and locals of a call.  texts, replies and embeddings are
\* those of its get_embeddings call (embedded: it has returned); retrieved
\* is the number of documents query_documents gave answer_question (-1: it
\* has not returned), chat tells that ollama_client.chat was called and
\* ingest that a request to /api/ask called add_documents; requests holds
\* the prompts posted to /api/embeddings, in the order of the posts
NoArgs == [op |-> "none", pdf_url |-> "none", chunks |-> <<>>, query |-> "none",
           n_results |-> 0, handle |-> 0, pre |-> "none",
           texts |-> <<>>, replies |-> <<>>, embeddings |-> <<>>, embedded |-> FALSE,
           asked |-> 0, count |-> 0, retrieved |-> -1, chat |-> FALSE,
           ingest |-> FALSE, requests |-> <<>>]

NoResult == [op |-> "none", pdf_url |-> "none", status |-> "none", pre |-> "none",
             documents |-> <<>>, distances |-> <<>>, metadatas |-> <<>>,
             value |-> "none", confidence |-> "none",
             n_results |-> 0, texts |-> <<>>, replies |-> <<>>,
             embeddings |-> <<>>, embedded |-> FALSE,
             asked |-> 0, count |-> 0, retrieved |-> -1, chat |-> FALSE,
             ingest |-> FALSE, requests |-> <<>>]

\* config.py line 26
DefaultEmbeddingsProvider == "sentence_transformers"

\* the values of EMBEDDINGS_PROVIDER: the two providers, and any other name
Providers == {"ollama", "sentence_transformers", "other"}

\* the client over an empty persist directory, no request
IndexEmpty ==
    /\ collections = <<>>
    /\ created = 0
    /\ tpc = [t \in Tasks |-> "idle"]
    /\ targ = [t \in Tasks |-> NoArgs]
    /\ tres = [t \in Tasks |-> NoResult]
    /\ nops = 0
    /\ upserted = {}
    /\ lastAdd = [u \in PdfUrls |-> <<>>]

\* the module-level vector_db under the default configuration
IndexAtRest == IndexEmpty /\ embeddings_provider = DefaultEmbeddingsProvider

Exists(name) == name \in DOMAIN collections

\* client.get_or_create_collection(name): the collections afterwards
GetOrCreate(name) ==
    IF Exists(name) THEN collections
    ELSE [n \in DOMAIN collections \cup {name} |->
             IF n = name THEN [uid |-> created + 1, items |-> <<>>]
             ELSE collections[n]]

CreatedAfter(name) == IF Exists(name) THEN created ELSE created + 1

\* the state of a url's collection as a call finds it
PreState(name) ==
    IF ~Exists(name) THEN "absent"
    ELSE IF DOMAIN collections[name].items = {} THEN "empty" ELSE "nonempty"

\* collection.count()
Count(name) == Cardinality(DOMAIN collections[name].items)

\* a variant that asks for n_results whatever the collection holds
UnclampedK(n_results, count) == n_results

\* line 116: n_results=min(n_results, collection.count())
ClampedK(n_results, count) == Min(n_results, count)

\* a check that never finds the collection empty
CollectionIsEmptyNever(colls, name) == FALSE

\* line 102: collection.count() == 0, on the collection just got or created
CollectionIsEmpty(colls, name) == Cardinality(DOMAIN colls[name].items) = 0

\* collection.add(embeddings, documents, ids, metadatas) with ids chunk_0 ..
\* chunk_{n-1}: an id the collection already holds is left as it is
ChromaAdd(items, chunkList, embeddings) ==
    [i \in DOMAIN items \cup (0..(Len(chunkList) - 1)) |->
        IF i \in DOMAIN items THEN items[i]
        ELSE [document |-> chunkList[i + 1], embedding |-> embeddings[i + 1],
              metadata |-> [chunk_index |-> i]]]

\* the lengths of the vectors a collection holds together with new ones
Dimensions(items, embeddings) ==
    {Len(items[i].embedding) : i \in DOMAIN items}
        \cup {Len(embeddings[i]) : i \in 1..Len(embeddings)}

\* whether collection.add takes the vectors: a collection holds vectors of
\* one length only; vectors of length zero are refused by the validation of
\* some releases of the library and not by others
ChromaAccepts(items, embeddings) ==
    IF Cardinality(Dimensions(items, embeddings)) > 1 THEN {FALSE}
    ELSE IF \E i \in 1..Len(embeddings) : embeddings[i] = <<>> THEN {TRUE, FALSE}
    ELSE {TRUE}

\* the result an empty collection gives (lines 104-108)
EmptyResult == [documents |-> <<>>, distances |-> <<>>, metadatas |-> <<>>]

\* collection.query(query_embeddings=[e], n_results=k): k ids in order of
\* distance; the order among equal distances is the index's choice
TopK(items, q, k) ==
    {r \in [1..k -> DOMAIN items] :
        /\ \A i, j \in 1..k : i < j => r[i] # r[j]
        /\ \A i, j \in 1..k :
              i < j => Distance(q, items[r[i]].document) <= Distance(q, items[r[j]].document)
        /\ \A id \in DOMAIN items :
              (\A i \in 1..k : r[i] # id) =>
                  \A i \in 1..k :
                      Distance(q, items[r[i]].document) <= Distance(q, items[id].document)}

\* lines 119-123
QueryResult(items, q, r) ==
    [documents |-> [i \in 1..Len(r) |-> items[r[i]].document],
     distances |-> [i \in 1..Len(r) |-> Distance(q, items[r[i]].document)],
     metadatas |-> [i \in 1..Len(r) |-> items[r[i]].metadata]]

\* a call ends: its request is idle again and holds the outcome
Finish(t, res) ==
    /\ tpc' = [tpc EXCEPT ![t] = "idle"]
    /\ targ' = [targ EXCEPT ![t] = NoArgs]
    /\ tres' = [tres EXCEPT ![t] = res]

Returned(a, r, v, conf) ==
    [op |-> a.op, pdf_url |-> a.pdf_url, status |-> "ok", pre |-> a.pre,
     documents |-> r.documents, distances |-> r.distances, metadatas |-> r.metadatas,
     value |-> v, confidence |-> conf,
     n_results |-> a.n_results, texts |-> a.texts, replies |-> a.replies,
     embeddings |-> a.embeddings, embedded |-> a.embedded,
     asked |-> a.asked, count |-> a.count, retrieved |-> a.retrieved, chat |-> a.chat,
     ingest |-> a.ingest, requests |-> a.requests]

Raised(a, exc) ==
    [op |-> a.op, pdf_url |-> a.pdf_url, status |-> "raised", pre |-> a.pre,
     documents |-> <<>>, distances |-> <<>>, metadatas |-> <<>>,
     value |-> exc, confidence |-> "none",
     n_results |-> a.n_results, texts |-> a.texts, replies |-> a.replies,
     embeddings |-> a.embeddings, embedded |-> a.embedded,
     asked |-> a.asked, count |-> a.count, retrieved |-> a.retrieved, chat |-> a.chat,
     ingest |-> a.ingest, requests |-> a.requests]

\* a request may start a call
CanStart(t) == tpc[t] = "idle" /\ nops < MaxOps

\* add_documents, lines 67-71: the collection is got or created, then the
\* call awaits get_embeddings
AddDocumentsBegin(t, pdf_url, chunkList) ==
    /\ CanStart(t)
    /\ IndexFrame
    /\ LET name == create_collection_name(pdf_url)
       IN  /\ targ' = [targ EXCEPT ![t] =
                  [NoArgs EXCEPT !.op = "add", !.pdf_url = pdf_url,
                                 !.chunks = chunkList,
                                 !.handle = GetOrCreate(name)[name].uid,
                                 !.pre = PreState(name)]]
           /\ collections' = GetOrCreate(name)
           /\ created' = CreatedAfter(name)
    /\ tpc' = [tpc EXCEPT ![t] = "add_embed"]
    /\ nops' = nops + 1
    /\ upserted' = upserted \cup {pdf_url}
    /\ UNCHANGED <<tres, lastAdd>>

\* add_documents: get_embeddings raises; lines 91-93 log and re-raise
AddDocumentsEmbedFails(t) ==
    /\ tpc[t] = "add_embed"
    /\ IndexFrame
    /\ Finish(t, Raised(targ[t], EmbedError(embeddings_provider)))
    /\ UNCHANGED <<collections, created, nops, upserted, lastAdd>>

\* the collection a handle refers to is still there
HandleValid(a) ==
    /\ Exists(create_collection_name(a.pdf_url))
    /\ collections[create_collection_name(a.pdf_url)].uid = a.handle

\* add_documents returns collection_name (line 89).  To ask_question
\* (main.py lines 862-864) the return is not a suspension: it goes on into
\* answer_question and query_documents, whose get_or_create_collection and
\* count() find the collection just written, not empty, and the request
\* next awaits the embedding of the question.
AddReturns(t, a, name) ==
    IF a.op = "ask"
    THEN /\ tpc' = [tpc EXCEPT ![t] = "query_embed"]
         /\ targ' = [targ EXCEPT ![t] = [a EXCEPT !.pre = "nonempty"]]
         /\ UNCHANGED tres
    ELSE Finish(t, Returned(a, EmptyResult, name, "none"))

\* add_documents, lines 74-89: the embeddings arrive and collection.add runs
AddDocumentsWrite(t) ==
    /\ tpc[t] = "add_embed"
    /\ ProviderReady(embeddings_provider)
    /\ IndexFrame
    /\ \E replies \in EmbeddingReplies(embeddings_provider, targ[t].chunks) :
        LET a == Embedded(targ[t], targ[t].chunks, replies)
            name == create_collection_name(a.pdf_url)
        IN  IF ~HandleValid(a)
            THEN \* the collection was deleted during the await
                 /\ Finish(t, Raised(a, "collection does not exist"))
                 /\ UNCHANGED <<collections, lastAdd>>
            ELSE IF a.chunks = <<>>
            THEN \* collection.add refuses empty lists
                 /\ Finish(t, Raised(a, "empty ids"))
                 /\ UNCHANGED <<collections, lastAdd>>
            ELSE \E accepted \in ChromaAccepts(collections[name].items, a.embeddings) :
                   IF ~accepted
                   THEN /\ Finish(t, Raised(a, "invalid embedding"))
                        /\ UNCHANGED <<collections, lastAdd>>
                   ELSE /\ collections' = [collections EXCEPT ![name].items =
                                              ChromaAdd(@, a.chunks, a.embeddings)]
                        /\ lastAdd' = [lastAdd EXCEPT ![a.pdf_url] = a.chunks]
                        /\ AddReturns(t, a, name)
    /\ UNCHANGED <<created, nops, upserted>>

\* a variant that never finds the contexts empty
NoContextsNever(contexts) == FALSE

\* qa.py line 42: if not contexts
NoContexts(contexts) == contexts = <<>>

\* answer_question, qa.py lines 35-63, once query_documents has returned:
\* without contexts the fixed answer is returned, otherwise the prompt is
\* built and the call awaits ollama_client.chat
AnswerAfterQuery(t, a, res) ==
    LET b == [a EXCEPT !.retrieved = Len(res.documents)]
    IN  IF NoContexts(res.documents)
        THEN Finish(t, Returned(b, EmptyResult, "insufficient context", "low"))
        ELSE /\ tpc' = [tpc EXCEPT ![t] = "chat"]
             /\ targ' = [targ EXCEPT ![t] =
                            [b EXCEPT !.chunks = res.documents, !.chat = TRUE]]
             /\ UNCHANGED tres

\* query_documents returns res, to its caller (op "query") or into
\* answer_question (op "answer")
QueryReturns(t, a, res) ==
    IF a.op = "query" THEN Finish(t, Returned(a, res, "none", "none"))
    ELSE AnswerAfterQuery(t, a, res)

\* query_documents, lines 98-108, entered from op "query" (a direct call) or
\* "answer" (answer_question, line 34): the collection is got or created; an
\* empty one gives the empty result at once, otherwise the call awaits the
\* embedding of the query
QueryBegin(t, op, pdf_url, q, n) ==
    /\ CanStart(t)
    /\ IndexFrame
    /\ LET name == create_collection_name(pdf_url)
           a == [NoArgs EXCEPT !.op = op, !.pdf_url = pdf_url, !.query = q,
                                !.n_results = n,
                                !.handle = GetOrCreate(name)[name].uid,
                                !.pre = PreState(name)]
       IN  /\ collections' = GetOrCreate(name)
           /\ created' = CreatedAfter(name)
           /\ IF CollectionIsEmpty(GetOrCreate(name), name)
              THEN QueryReturns(t, a, EmptyResult)
              ELSE /\ tpc' = [tpc EXCEPT ![t] = "query_embed"]
                   /\ targ' = [targ EXCEPT ![t] = a]
                   /\ UNCHANGED tres
    /\ nops' = nops + 1
    /\ UNCHANGED <<upserted, lastAdd>>

\* vector_db.query_documents(pdf_url, query, n_results)
QueryDocuments(t, pdf_url, q, n) == QueryBegin(t, "query", pdf_url, q, n)

\* qa_system.answer_question(pdf_url, question): n_results=2
AnswerQuestion(t, pdf_url, q) == QueryBegin(t, "answer", pdf_url, q, 2)

\* query_documents: get_embeddings raises; lines 125-127 re-raise, and
\* answer_question wraps it (qa.py lines 82-84)
QueryEmbedFails(t) ==
    /\ tpc[t] = "query_embed"
    /\ IndexFrame
    /\ Finish(t, Raised(targ[t], EmbedError(embeddings_provider)))
    /\ UNCHANGED <<collections, created, nops, upserted, lastAdd>>

\* query_documents, lines 111-123: the query embedding arrives and
\* collection.query is asked for min(n_results, count) items.  Asked for
\* more than it holds (which line 116 rules out) the index refuses or gives
\* what it holds, by release.
QueryFinish(t) ==
    /\ tpc[t] = "query_embed"
    /\ ProviderReady(embeddings_provider)
    /\ IndexFrame
    /\ \E replies \in EmbeddingReplies(embeddings_provider, <<targ[t].query>>) :
        LET a == Embedded(targ[t], <<targ[t].query>>, replies)
            name == create_collection_name(a.pdf_url)
            items == collections[name].items
            k == ClampedK(a.n_results, Count(name))
            b == [a EXCEPT !.asked = k, !.count = Count(name)]
        IN  IF ~HandleValid(a)
            THEN Finish(t, Raised(a, "collection does not exist"))
            ELSE IF a.embeddings[1] = <<>>
            THEN \* a vector of another length than the collection's
                 Finish(t, Raised(b, "invalid embedding"))
            ELSE IF k = 0
            THEN \* collection.query refuses n_results = 0
                 Finish(t, Raised(b, "n_results is zero"))
            ELSE IF k > Count(name)
            THEN \/ Finish(t, Raised(b, "not enough elements"))
                 \/ \E r \in TopK(items, a.query, Count(name)) :
                        QueryReturns(t, b, QueryResult(items, a.query, r))
            ELSE \E r \in TopK(items, a.query, k) :
                    QueryReturns(t, b, QueryResult(items, a.query, r))
    /\ UNCHANGED <<collections, created, nops, upserted, lastAdd>>

\* a variant with each threshold one lower
ConfidenceFromTwo(n) == IF n >= 2 THEN "high" ELSE IF n >= 0 THEN "medium" ELSE "low"

\* qa.py line 71
Confidence(n) == IF n >= 3 THEN "high" ELSE IF n >= 1 THEN "medium" ELSE "low"

\* answer_question, lines 63-80: chat returns the answer
AnswerChatReturns(t) ==
    /\ tpc[t] = "chat"
    /\ IndexFrame
    /\ LET a == targ[t]
           contexts == a.chunks
       IN  Finish(t, Returned(a, [documents |-> SubSeq(contexts, 1, Min(3, Len(contexts))),
                                   distances |-> <<>>, metadatas |-> <<>>],
                              "answer", Confidence(Len(contexts))))
    /\ UNCHANGED <<collections, created, nops, upserted, lastAdd>>

\* answer_question, lines 82-84: chat raises
AnswerChatRaises(t) ==
    /\ tpc[t] = "chat"
    /\ IndexFrame
    /\ Finish(t, Raised(targ[t], "chat error"))
    /\ UNCHANGED <<collections, created, nops, upserted, lastAdd>>

\* collection_exists, lines 140-145
CollectionExists(t, pdf_url) ==
    /\ CanStart(t)
    /\ IndexFrame
    /\ LET a == [NoArgs EXCEPT !.op = "exists", !.pdf_url = pdf_url,
                                !.pre = PreState(create_collection_name(pdf_url))]
       IN  Finish(t, Returned(a, EmptyResult,
                              IF Exists(create_collection_name(pdf_url)) THEN "True" ELSE "False",
                              "none"))
    /\ nops' = nops + 1
    /\ UNCHANGED <<collections, created, upserted, lastAdd>>

\* delete_collection, lines 131-136: a missing collection is logged, not raised
DeleteCollection(t, pdf_url) ==
    /\ CanStart(t)
    /\ IndexFrame
    /\ LET name == create_collection_name(pdf_url)
           a == [NoArgs EXCEPT !.op = "delete", !.pdf_url = pdf_url, !.pre = PreState(name)]
       IN  /\ collections' = [n \in DOMAIN collections \ {name} |-> collections[n]]
           /\ lastAdd' = [lastAdd EXCEPT ![pdf_url] = <<>>]
           /\ Finish(t, Returned(a, EmptyResult, "none", "none"))
    /\ nops' = nops + 1
    /\ UNCHANGED <<created, upserted>>

\* get_embeddings(texts) under the remote provider (vector_db.py lines
\* 48-49) enters ollama_client.embeddings (lines 116-117): results is empty
\* and the loop runs over texts; without texts it returns at once
EmbeddingsBegin(t, texts) ==
    /\ CanStart(t)
    /\ embeddings_provider = "ollama"
    /\ IndexFrame
    /\ LET a == [NoArgs EXCEPT !.op = "embeddings", !.texts = texts]
       IN  IF texts = <<>>
           THEN Finish(t, Returned([a EXCEPT !.embedded = TRUE], EmptyResult, "none", "none"))
           ELSE /\ tpc' = [tpc EXCEPT ![t] = "embeddings"]
                /\ targ' = [targ EXCEPT ![t] = a]
                /\ UNCHANGED tres
    /\ nops' = nops + 1
    /\ UNCHANGED <<collections, created, upserted, lastAdd>>

\* the text the loop of embeddings() is at
NextText(a) == a.texts[Len(a.embeddings) + 1]

\* ollama_client.py lines 118-124: one iteration whose _post returns data;
\* after the last text the list is returned (line 125)
EmbeddingsPost(t, data) ==
    /\ tpc[t] = "embeddings"
    /\ data \in ReplyBodies(NextText(targ[t]))
    /\ IndexFrame
    /\ LET a == [targ[t] EXCEPT !.requests = Append(@, NextText(targ[t])),
                                !.replies = Append(@, data),
                                !.embeddings = Collect(@, EmbeddingOf(data))]
       IN  IF Len(a.embeddings) = Len(a.texts)
           THEN Finish(t, Returned([a EXCEPT !.embedded = TRUE], EmptyResult, "none", "none"))
           ELSE /\ targ' = [targ EXCEPT ![t] = a]
                /\ UNCHANGED <<tpc, tres>>
    /\ UNCHANGED <<collections, created, nops, upserted, lastAdd>>

\* a variant that posts the same prompt again after a failure
PostFailureRetried(t, a) ==
    /\ targ' = [targ EXCEPT ![t] = a]
    /\ UNCHANGED <<tpc, tres>>

\* ollama_client.py line 122 and lines 78-83: nothing in embeddings() or
\* _post catches, so the exception leaves the loop and the call, and the
\* vectors collected so far go with the frame; vector_db.py lines 60-62 log
\* and re-raise
PostFailure(t, a) == Finish(t, Raised([a EXCEPT !.embeddings = <<>>], "embedding error"))

\* ollama_client.py line 122: the post for the current text raises
\* (connection, timeout, HTTP status or body that is not JSON)
EmbeddingsPostFails(t) ==
    /\ tpc[t] = "embeddings"
    /\ IndexFrame
    /\ PostFailure(t, [targ[t] EXCEPT !.requests = Append(@, NextText(targ[t]))])
    /\ UNCHANGED <<collections, created, nops, upserted, lastAdd>>

\* ------------------------------------------------------------------------
\* QASystem.answer_question: the prompt (backend/ai/qa.py)
\* ------------------------------------------------------------------------
\* qa.py line 54
SystemMessage ==
    [role |-> "system",
     content |-> <<"A","n","s","w","e","r"," ","u","s","i","n","g"," ","O","N","L","Y"," ","t","h","e"," ","c","o","n","t","e","x","t","."," ","B","e"," ","b","r","i","e","f",".">>]

\* qa.py line 50: ctx[:300]
ContextLimit == 300

\* a variant that keeps the whole context
TrimNothing(ctx) == ctx

\* qa.py line 50: ctx[:300]
Trim(ctx) == PySlice(ctx, 0, ContextLimit)

\* str(n) of a small positive number
PyStr(n) == <<<<"1","2","3","4","5","6","7","8","9">>[n]>>

\* qa.py line 51: f"[{i+1}] {ctx}", i + 1 being n
Numbered(n, ctx) == <<"[">> \o PyStr(n) \o <<"]", " ">> \o ctx

\* "\n".join(parts)
RECURSIVE JoinLines(_)
JoinLines(parts) ==
    IF parts = <<>> THEN <<>>
    ELSE IF Len(parts) = 1 THEN Head(parts)
    ELSE Head(parts) \o <<"\n">> \o JoinLines(Tail(parts))

\* qa.py lines 50-51: context_text
ContextText(contexts) ==
    JoinLines([i \in 1..Len(contexts) |-> Numbered(i, Trim(contexts[i]))])

\* qa.py line 59: conversation_history[-2:]
LastTwo(list) == PySlice(list, -2, Len(list))

\* qa.py lines 58-59: if conversation_history (neither None nor empty)
HistoryPart(history) ==
    IF history.given /\ history.list # <<>> THEN LastTwo(history.list) ELSE <<>>

\* qa.py line 61: the user message
UserMessage(contexts, question) ==
    [role |-> "user",
     content |-> ContextText(contexts) \o <<"\n", "\n", "Q", ":", " ">> \o question]

\* qa.py lines 53-61: messages
Messages(contexts, question, history) ==
    <<SystemMessage>> \o HistoryPart(history) \o <<UserMessage(contexts, question)>>

\* qa.py line 77: contexts[:3]
Sources(contexts) == PySlice(contexts, 0, 3)

\* a context of n characters, with its first and last ones marked
ContextOf(n) == [i \in 1..n |-> IF i = 1 THEN "h" ELSE IF i = n THEN "t" ELSE "c"]

\* contexts shorter than, as long as and longer than the limit
ContextTexts == {ContextOf(n) : n \in {2} \cup ((ContextLimit - 1)..(ContextLimit + MaxAffix))}

\* what query_documents gives answer_question for n_results=2 (line 37)
ContextLists == UNION {[1..n -> ContextTexts] : n \in 0..2}

\* the messages a conversation is made of
HistoryMessages ==
    {[role |-> "user", content |-> <<"q", "1">>],
     [role |-> "assistant", content |-> <<"a", "1">>]}

\* conversation_history: None (line 20), or a list of messages
Histories ==
    {[given |-> FALSE, list |-> <<>>]}
        \cup {[given |-> TRUE, list |-> l] :
                 l \in UNION {[1..n -> HistoryMessages] : n \in 0..MaxHistory}}

Questions == {<<"w", "h", "y", "?">>}

\* no call of answer_question
PromptAtRest ==
    qa = [pc |-> "idle", contexts |-> <<>>, question |-> <<>>,
          history |-> [given |-> FALSE, list |-> <<>>],
          messages |-> <<>>, sources |-> <<>>, answer |-> "none"]

\* qa.py lines 40-62: query_documents has returned; without contexts the
\* fixed answer is returned, otherwise the messages are built and the call
\* awaits ollama_client.chat
PromptBuild ==
    /\ qa.pc = "query"
    /\ PromptFrame
    /\ IF NoContexts(qa.contexts)
       THEN qa' = [qa EXCEPT !.pc = "returned", !.answer = "insufficient context"]
       ELSE qa' = [qa EXCEPT !.pc = "chat",
                             !.messages = Messages(qa.contexts, qa.question, qa.history)]

\* qa.py lines 63-80: chat returns, and the answer goes out with the sources
PromptChatReturns ==
    /\ qa.pc = "chat"
    /\ PromptFrame
    /\ qa' = [qa EXCEPT !.pc = "returned", !.answer = "answer",
                        !.sources = Sources(qa.contexts)]

\* qa.py lines 82-84: chat raises
PromptChatRaises ==
    /\ qa.pc = "chat"
    /\ PromptFrame
    /\ qa' = [qa EXCEPT !.pc = "raised"]

\* POST /api/ask, main.py lines 854-864: collection_exists is asked; for a
\* collection that is there the request goes straight into answer_question,
\* otherwise it awaits _process_pdf_source
AskBegin(t, pdf_url, q) ==
    IF Exists(create_collection_name(pdf_url))
    THEN QueryBegin(t, "ask", pdf_url, q, 2)
    ELSE /\ CanStart(t)
         /\ IndexFrame
         /\ tpc' = [tpc EXCEPT ![t] = "ask_process"]
         /\ targ' = [targ EXCEPT ![t] =
                [NoArgs EXCEPT !.op = "ask", !.pdf_url = pdf_url, !.query = q,
                               !.n_results = 2, !.pre = "absent"]]
         /\ nops' = nops + 1
         /\ UNCHANGED <<collections, created, tres, upserted, lastAdd>>

\* main.py line 860: _process_pdf_source raises (the download or the parse
\* fails); lines 871-874 answer 500
AskProcessFails(t) ==
    /\ tpc[t] = "ask_process"
    /\ IndexFrame
    /\ Finish(t, Raised(targ[t], "process_pdf error"))
    /\ UNCHANGED <<collections, created, nops, upserted, lastAdd>>

\* main.py lines 860-862: _process_pdf_source returns the chunks of the
\* document and add_documents is called: the collection is got or created
\* and the request awaits get_embeddings
AskIngest(t, chunkList) ==
    /\ tpc[t] = "ask_process"
    /\ IndexFrame
    /\ LET name == create_collection_name(targ[t].pdf_url)
       IN  /\ targ' = [targ EXCEPT ![t] =
                  [@ EXCEPT !.chunks = chunkList,
                            !.handle = GetOrCreate(name)[name].uid,
                            !.ingest = TRUE]]
           /\ collections' = GetOrCreate(name)
           /\ created' = CreatedAfter(name)
    /\ tpc' = [tpc EXCEPT ![t] = "add_embed"]
    /\ upserted' = upserted \cup {targ[t].pdf_url}
    /\ UNCHANGED <<tres, nops, lastAdd>>

\* ------------------------------------------------------------------------
\* PDFHandler.chunk_text
\* ------------------------------------------------------------------------
\* text[i] in '.!?\n'
Terminals == {".", "!", "?", "\n"}

\* range(end, max(start, end - 100), -1): how far the scan reaches back
SentenceLookback == 100

\* a variant of the scan that reaches back to start itself
ScanRangeToStart(s, e) == s..e

\* the indices the for loop visits, from end down to max(start, end-100)+1
ScanRange(s, e) == (Max(s, e - SentenceLookback) + 1)..e

\* the for loop: the first index, scanning down from end, that holds a
\* sentence terminal sets end = i + 1; without one end is unchanged
ScanEnd(t, s, e) ==
    LET hits == {i \in ScanRange(s, e) : PyIndex(t, i) \in Terminals}
    IN  IF hits = {} THEN e
        ELSE (CHOOSE i \in hits : \A j \in hits : j <= i) + 1

\* lines 118-126: the end of the window that starts at s
WindowEnd(t, s, size) ==
    IF s + size < Len(t) THEN ScanEnd(t, s, s + size) ELSE s + size

\* line 129: text[start:end].strip()
ChunkText(t, s, e) == PyStrip(PySlice(t, s, e))

\* a window that starts one character late
NextStartSkips(e, overlap) == e - overlap + 1

\* line 142: start = end - self.chunk_overlap
NextStart(e, overlap) == e - overlap

\* a variant that records every chunk at offset 0
ChunkRecordAtZero(id, ct, s, e) ==
    [chunk_id |-> id, text |-> ct, start_pos |-> 0, end_pos |-> e,
     length |-> Len(ct)]

\* lines 131-139
ChunkRecord(id, ct, s, e) ==
    [chunk_id |-> id, text |-> ct, start_pos |-> s, end_pos |-> e, length |-> Len(ct)]

\* The characters texts are drawn from: a letter, a blank, a sentence
\* terminal, and the newline (a terminal that strip() also removes).
Alphabet == {"a", " ", ".", "\n"}

ShortTexts == UNION {[1..n -> Alphabet] : n \in 0..MaxLen}

\* "The cat sat. The dog ran. Birds fly south."
ExampleText ==
    <<"T","h","e"," ","c","a","t"," ","s","a","t","."," ",
      "T","h","e"," ","d","o","g"," ","r","a","n","."," ",
      "B","i","r","d","s"," ","f","l","y"," ","s","o","u","t","h",".">>

\* Texts longer than the scan reaches back: a short head and tail around a
\* run of letters about SentenceLookback long.
Fill(n) == [i \in 1..n |-> "a"]

Affixes == UNION {[1..n -> {"a", "."}] : n \in 0..MaxAffix}

LongTexts ==
    {pre \o Fill(n) \o post :
        pre \in Affixes, post \in Affixes,
        n \in (SentenceLookback - 2)..SentenceLookback}

\* the inputs of chunk_text: a text and a configuration with
\* 0 <= chunk_overlap < chunk_size
ChunkInputs ==
    {<<t, cs, ov>> \in ShortTexts \X (1..MaxChunkSize) \X (0..MaxChunkSize) : ov < cs}
    \cup (LongTexts \X (SentenceLookback..(SentenceLookback + 2)) \X (0..MaxChunkSize))
    \cup {<<ExampleText, 20, 5>>}

\* PDFHandler.__init__ defaults
DefaultChunkSize == 1000
DefaultChunkOverlap == 200

\* chunk_text not running
ChunkAtRest ==
    /\ text = <<>>
    /\ chunk_size = DefaultChunkSize
    /\ chunk_overlap = DefaultChunkOverlap
    /\ start = 0
    /\ chunk_id = 0
    /\ chunks = <<>>
    /\ cpc = "done"

InitChunk ==
    /\ StreamAtRest
    /\ IndexAtRest
    /\ AppAtRest /\ PromptAtRest
    /\ \E inp \in ChunkInputs :
          /\ text = inp[1]
          /\ chunk_size = inp[2]
          /\ chunk_overlap = inp[3]
    /\ start = 0
    /\ chunk_id = 0
    /\ chunks = <<>>
    /\ cpc = "loop"

\* one iteration of `while start < len(text)`.  A run that has appended more
\* chunks than the text has characters is no longer followed.
ChunkStep ==
    /\ cpc = "loop"
    /\ start < Len(text)
    /\ Len(chunks) <= Len(text)
    /\ LET end == WindowEnd(text, start, chunk_size)
           ct  == ChunkText(text, start, end)
       IN  /\ chunks' = IF ct # <<>>
                          THEN Append(chunks, ChunkRecord(chunk_id, ct, start, end))
                          ELSE chunks
           /\ chunk_id' = IF ct # <<>> THEN chunk_id + 1 ELSE chunk_id
           /\ start' = NextStart(end, chunk_overlap)
    /\ UNCHANGED <<text, chunk_size, chunk_overlap, cpc>>
    /\ ChunkFrame

\* the loop condition fails: return chunks
ChunkReturn ==
    /\ cpc = "loop"
    /\ start >= Len(text)
    /\ cpc' = "done"
    /\ UNCHANGED <<text, chunk_size, chunk_overlap, start, chunk_id, chunks>>
    /\ ChunkFrame

NextChunk == ChunkStep \/ ChunkReturn

SpecChunk == InitChunk /\ [][NextChunk]_vars

InitStream == ChunkAtRest /\ StreamAtRest /\ IndexAtRest /\ AppAtRest /\ PromptAtRest

NextStream ==
    \E c \in FirstCall :
        \/ StreamChatBegin(c)
        \/ PostConnectionError(c)
        \/ PostTimeout(c)
        \/ PostHTTPError(c)
        \/ PostOK(c)
        \/ \E line \in Lines : IterLine(c, line)
        \/ IterClose(c)
        \/ IterTimeout(c)
        \/ IterConnectionError(c)
        \/ IterOtherError(c)
        \/ AskQuestionFails(c)

SpecStream == InitStream /\ [][NextStream]_vars

InitIndex == ChunkAtRest /\ StreamAtRest /\ IndexAtRest /\ AppAtRest /\ PromptAtRest

\* get_embeddings under each value of EMBEDDINGS_PROVIDER, one request at a
\* time
InitEmbed ==
    /\ ChunkAtRest
    /\ StreamAtRest
    /\ IndexEmpty
    /\ AppAtRest /\ PromptAtRest
    /\ embeddings_provider \in Providers

NextEmbed ==
    \/ \E u \in PdfUrls, cl \in ChunkLists : AddDocumentsBegin("t1", u, cl)
    \/ AddDocumentsEmbedFails("t1")
    \/ AddDocumentsWrite("t1")
    \/ \E u \in PdfUrls, q \in Queries, n \in {1, 5} : QueryDocuments("t1", u, q, n)
    \/ QueryEmbedFails("t1")
    \/ QueryFinish("t1")

SpecEmbed == InitEmbed /\ [][NextEmbed]_vars

\* concurrent and repeated chat calls (chat, lines 86-108, runs each
\* _stream_chat in a thread of its own): every call has its own response
ChatLines ==
    {[type |-> "json", content |-> <<"a">>, done |-> FALSE],
     [type |-> "json", content |-> <<"b">>, done |-> FALSE],
     [type |-> "json", content |-> <<>>, done |-> TRUE]}

InitChat == ChunkAtRest /\ StreamAtRest /\ IndexAtRest /\ AppAtRest /\ PromptAtRest

NextChat ==
    \E c \in StreamCalls :
        \/ StreamChatBegin(c)
        \/ StreamChatAgain(c)
        \/ PostConnectionError(c)
        \/ PostTimeout(c)
        \/ PostHTTPError(c)
        \/ PostOK(c)
        \/ \E line \in ChatLines : IterLine(c, line)
        \/ IterClose(c)
        \/ IterTimeout(c)
        \/ IterConnectionError(c)
        \/ IterOtherError(c)

SpecChat == InitChat /\ [][NextChat]_vars

\* the application starts, and the warm_up task runs its chat call
InitStartup == ChunkAtRest /\ StreamAtRest /\ IndexAtRest /\ AppAtRest /\ PromptAtRest

NextStartup ==
    \/ StartupConnect
    \/ StartupReady
    \/ WarmUpBegin
    \/ \E c \in FirstCall :
          \/ WarmUpChat(c)
          \/ PostConnectionError(c)
          \/ PostTimeout(c)
          \/ PostHTTPError(c)
          \/ PostOK(c)
          \/ \E line \in Lines : IterLine(c, line)
          \/ IterClose(c)
          \/ IterTimeout(c)
          \/ IterConnectionError(c)
          \/ IterOtherError(c)
          \/ WarmUpReturns(c)
          \/ WarmUpRaises(c)

\* lifespan's own steps are taken when they can be: mongodb.connect returns
\* or raises, and the rest of lifespan awaits nothing.  Nothing is assumed
\* of the warm_up task or its chat call.
SpecStartup ==
    /\ InitStartup
    /\ [][NextStartup]_vars
    /\ WF_vars(StartupConnect)
    /\ WF_vars(StartupReady)

NextIndex ==
    \E t \in Tasks :
        \/ \E u \in PdfUrls, cl \in ChunkLists : AddDocumentsBegin(t, u, cl)
        \/ AddDocumentsEmbedFails(t)
        \/ AddDocumentsWrite(t)
        \/ \E u \in PdfUrls, q \in Queries, n \in {1, 5} : QueryDocuments(t, u, q, n)
        \/ \E u \in PdfUrls, q \in Queries : AnswerQuestion(t, u, q)
        \/ QueryEmbedFails(t)
        \/ QueryFinish(t)
        \/ AnswerChatReturns(t)
        \/ AnswerChatRaises(t)
        \/ \E u \in PdfUrls : CollectionExists(t, u)
        \/ \E u \in PdfUrls : DeleteCollection(t, u)

SpecIndex == InitIndex /\ [][NextIndex]_vars

\* calls of get_embeddings under the remote provider, post by post, one
\* call at a time
InitRemote ==
    /\ ChunkAtRest
    /\ StreamAtRest
    /\ IndexEmpty
    /\ AppAtRest /\ PromptAtRest
    /\ embeddings_provider = "ollama"

NextRemote ==
    \/ \E texts \in ChunkLists : EmbeddingsBegin("t1", texts)
    \/ \E data \in UNION {ReplyBodies(x) : x \in ChunkTexts} : EmbeddingsPost("t1", data)
    \/ EmbeddingsPostFails("t1")

SpecRemote == InitRemote /\ [][NextRemote]_vars

\* answer_question from the return of query_documents on, for every result
\* of the query and every conversation
InitPrompt ==
    /\ ChunkAtRest
    /\ StreamAtRest
    /\ IndexAtRest
    /\ AppAtRest
    /\ qa \in {[pc |-> "query", contexts |-> c, question |-> q, history |-> h,
                messages |-> <<>>, sources |-> <<>>, answer |-> "none"] :
                   c \in ContextLists, q \in Questions, h \in Histories}

NextPrompt == PromptBuild \/ PromptChatReturns \/ PromptChatRaises

SpecPrompt == InitPrompt /\ [][NextPrompt]_vars

\* requests to POST /api/ask
InitAsk == ChunkAtRest /\ StreamAtRest /\ IndexAtRest /\ AppAtRest /\ PromptAtRest

NextAsk ==
    \E t \in Tasks :
        \/ \E u \in PdfUrls, q \in Queries : AskBegin(t, u, q)
        \/ AskProcessFails(t)
        \/ \E cl \in ChunkLists : AskIngest(t, cl)
        \/ AddDocumentsEmbedFails(t)
        \/ AddDocumentsWrite(t)
        \/ QueryEmbedFails(t)
        \/ QueryFinish(t)
        \/ AnswerChatReturns(t)
        \/ AnswerChatRaises(t)

SpecAsk == InitAsk /\ [][NextAsk]_vars

\* ------------------------------------------------------------------------
\* Properties of chunk_text
\* ------------------------------------------------------------------------
\* the start offset the iteration at offset s leaves behind
StepStart(s) == NextStart(WindowEnd(text, s, chunk_size), chunk_overlap)

\* An iteration that does not move start forward leaves an offset from which
\* the next iteration leaves the same offset again: the loop never ends.
NoProgressIsForever ==
    (cpc = "loop" /\ start < Len(text) /\ StepStart(start) <= start)
        => StepStart(StepStart(start)) = StepStart(start)

\* Runs are cut off (ChunkStep's last guard) only inside such a loop.
CutOnlyInLoops ==
    (cpc = "loop" /\ start < Len(text) /\ Len(chunks) > Len(text))
        => StepStart(start) = start

\* C1: chunk_text terminates for every text and every configuration with
\* 0 <= chunk_overlap < chunk_size, the start offset reaching len(text).  An
\* iteration depends on the start offset alone, so a terminating run has no
\* iteration that leaves the start offset where it was.
C1_Terminates ==
    [][(cpc = "loop" /\ cpc' = "loop") => start' # start]_vars

\* the characters of t at the positions p with a <= p < b
RangeSlice(t, a, b) == SubSeq(t, Max(a, 0) + 1, Min(b, Len(t)))

\* C9: the end_pos recorded for the last chunk returned by chunk_text equals
\* len(text).
C9_LastEndIsLen ==
    (cpc = "done" /\ chunks # <<>>) => chunks[Len(chunks)].end_pos = Len(text)

\* C10: in the list chunk_text returns, every non-whitespace character
\* position of the text lies in [start_pos, end_pos) of some chunk, and each
\* chunk's text is the whitespace-trimmed slice of the text over its range.
C10_NoContentLost ==
    cpc = "done" =>
        /\ \A p \in 0..(Len(text) - 1) :
              text[p + 1] \notin Whitespace =>
                  \E k \in 1..Len(chunks) :
                      chunks[k].start_pos <= p /\ p < chunks[k].end_pos
        /\ \A k \in 1..Len(chunks) :
              chunks[k].text =
                  PyStrip(RangeSlice(text, chunks[k].start_pos, chunks[k].end_pos))

\* a returned list of overlapping chunks, one of them cut at a sentence
\* terminal, from a text with a window that held only whitespace
C10_Witness ==
    /\ cpc = "done"
    /\ chunk_overlap >= 1
    /\ Len(chunks) >= 2
    /\ \E k \in 1..Len(chunks) :
          chunks[k].end_pos - chunks[k].start_pos < chunk_size
    /\ \E k \in 1..(Len(chunks) - 1) :
          chunks[k + 1].start_pos > chunks[k].end_pos - chunk_overlap

\* C11: in the list chunk_text returns, start_pos strictly increases from
\* each chunk to the next.
C11_StartStrictlyIncreases ==
    cpc = "done" =>
        \A k \in 1..(Len(chunks) - 1) :
            chunks[k].start_pos < chunks[k + 1].start_pos

\* a returned list of three or more overlapping chunks, two of them starting
\* closer together than chunk_size - chunk_overlap
C11_Witness ==
    /\ cpc = "done"
    /\ chunk_overlap >= 1
    /\ Len(chunks) >= 3
    /\ \E k \in 1..(Len(chunks) - 1) :
          chunks[k + 1].start_pos - chunks[k].start_pos < chunk_size - chunk_overlap

\* the character at offset i of the text is a sentence terminal
TerminalAt(i) == i >= 0 /\ i < Len(text) /\ text[i + 1] \in Terminals

\* offset i lies in the lookback window of the naive end: at most
\* SentenceLookback offsets, from the naive end down, none at or before start
InLookback(i, naive) ==
    i <= naive /\ i > naive - SentenceLookback /\ i > start

\* C22: in every iteration of chunk_text whose naive end start + chunk_size
\* is inside the text, the end is just after the terminal nearest to the
\* naive end in the lookback window, or the naive end when the window holds
\* no terminal; a naive end at or beyond len(text) is kept.  (The end of an
\* iteration is the next start plus the overlap.)
C22_EndSnapsToNearestTerminal ==
    [][(cpc = "loop" /\ cpc' = "loop") =>
        LET naive == start + chunk_size
            end == start' + chunk_overlap
        IN  IF naive >= Len(text) THEN end = naive
            ELSE \/ /\ end = naive
                    /\ \A i \in 0..naive : InLookback(i, naive) => ~TerminalAt(i)
                 \/ /\ InLookback(end - 1, naive)
                    /\ TerminalAt(end - 1)
                    /\ \A i \in end..naive : ~TerminalAt(i)]_vars

\* a window cut hard at its naive end inside the text although the text
\* holds a terminal after start, further back than the lookback reaches
C22_Witness ==
    \E k \in 1..Len(chunks) :
        /\ chunks[k].end_pos = chunks[k].start_pos + chunk_size
        /\ chunks[k].end_pos < Len(text)
        /\ \E i \in (chunks[k].start_pos + 1)..(chunks[k].end_pos - SentenceLookback) :
              text[i + 1] \in Terminals

\* ------------------------------------------------------------------------
\* Properties of _stream_chat
\* ------------------------------------------------------------------------
\* the non-empty content fragments of the records among lines, in order
RECURSIVE Fragments(_)
Fragments(lines) ==
    IF lines = <<>> THEN <<>>
    ELSE IF Head(lines).type = "json" /\ Head(lines).content # <<>>
         THEN <<Head(lines).content>> \o Fragments(Tail(lines))
         ELSE Fragments(Tail(lines))

HasBadLine(lines) == \E i \in 1..Len(lines) : lines[i].type = "bad"

\* C2: a line of the response stream that is not valid JSON is skipped: the
\* call does not end with the parse error, and the fragments of the valid
\* records received before and after it are accumulated.
C2_MalformedSkipped ==
    \A c \in StreamCalls :
        HasBadLine(stream[c]) =>
            /\ error[c] # "JSONDecodeError"
            /\ st[c] \in {"streaming", "returned"}
            /\ content_parts[c] = Fragments(stream[c])

\* C3 (as claimed): a read timeout after at least one fragment makes the call
\* return exactly the concatenation of the fragments received so far.
C3_TimeoutReturnsConcat ==
    \A c \in StreamCalls :
        (transport[c].exc = "Timeout" /\ Fragments(stream[c]) # <<>>) =>
            /\ st[c] = "returned"
            /\ result[c] = Join(Fragments(stream[c]))

\* C3 (amended): a read timeout after at least one fragment makes the call
\* return, without raising, the concatenation in arrival order of the
\* fragments received so far with leading and trailing whitespace stripped.
C3_TimeoutReturnsStrippedConcat ==
    \A c \in StreamCalls :
        (transport[c].exc = "Timeout" /\ Fragments(stream[c]) # <<>>) =>
            /\ st[c] = "returned"
            /\ error[c] = "none"
            /\ result[c] = PyStrip(Join(Fragments(stream[c])))

\* three fragments, then the timeout, and text is returned
C3_Witness ==
    \E c \in StreamCalls :
        /\ transport[c] = [exc |-> "Timeout", at |-> "iter"]
        /\ Len(Fragments(stream[c])) = 3
        /\ st[c] = "returned"
        /\ result[c] # <<>>

\* C4: a read timeout with zero fragments accumulated ends the call in the
\* failed state: it raises the timeout error and returns nothing.
C4_TimeoutWithoutFragmentsFails ==
    \A c \in StreamCalls :
        (transport[c].exc = "Timeout" /\ Fragments(stream[c]) = <<>>) =>
            /\ st[c] = "raised"
            /\ error[c] = "timeout"
            /\ result[c] = <<>>

\* the timeout strikes while streaming, after lines that carried no fragment
C4_Witness ==
    \E c \in StreamCalls :
        /\ transport[c] = [exc |-> "Timeout", at |-> "iter"]
        /\ Len(stream[c]) >= 2
        /\ Fragments(stream[c]) = <<>>
        /\ st[c] = "raised"

\* C5: when the backend is unreachable the call ends in the failed state with
\* the connectivity error and zero accumulated content; it returns no text.
C5_UnreachableFails ==
    \A c \in StreamCalls :
        transport[c] = [exc |-> "ConnectionError", at |-> "post"] =>
            /\ st[c] = "raised"
            /\ error[c] = "connect"
            /\ content_parts[c] = <<>>
            /\ result[c] = <<>>

\* the connection was refused
C5_Witness ==
    \E c \in StreamCalls :
        /\ transport[c] = [exc |-> "ConnectionError", at |-> "post"]
        /\ st[c] = "raised"
        /\ stream[c] = <<>>

\* C20 (as claimed): the loop stops at the first done record or at the
\* close of the stream, and the call returns exactly the concatenation, in
\* arrival order, of the non-empty fragments received up to and including
\* the first done record.
C20_ReturnsConcatUpToDone ==
    \A c \in StreamCalls :
        /\ \A i \in 1..Len(stream[c]) : stream[c][i].done => i = Len(stream[c])
        /\ (st[c] = "returned" /\ transport[c].exc = "none") =>
              result[c] = Join(Fragments(stream[c]))

\* C20 (amended): no line is read after a done record, and a call that the
\* first done record or the close of the stream ends returns the
\* concatenation, in arrival order, of the non-empty fragments received up
\* to and including that record, with leading and trailing whitespace
\* stripped.
C20_ReturnsStrippedConcatUpToDone ==
    \A c \in StreamCalls :
        /\ \A i \in 1..Len(stream[c]) :
              stream[c][i].done => (i = Len(stream[c]) /\ st[c] = "returned")
        /\ (st[c] = "returned" /\ transport[c].exc = "none") =>
              result[c] = PyStrip(Join(Fragments(stream[c])))

\* two different fragments, the second in the done record that ends the call
C20_Witness ==
    \E c \in StreamCalls :
        /\ st[c] = "returned"
        /\ transport[c].exc = "none"
        /\ Len(stream[c]) >= 2
        /\ stream[c][Len(stream[c])].done
        /\ Len(Fragments(stream[c])) = 2
        /\ Fragments(stream[c])[1] # Fragments(stream[c])[2]
        /\ result[c] = Fragments(stream[c])[1] \o Fragments(stream[c])[2]

\* C21: every chat call owns a fresh accumulator: under any interleaving of
\* concurrent calls and after any earlier calls (failed or timed out with
\* partial content included), what a call has accumulated is what its own
\* stream delivered, and the text it returns is made of those fragments
\* only; a call that raises returns no text.
C21_OwnFragmentsOnly ==
    \A c \in StreamCalls :
        /\ st[c] \in {"streaming", "returned"} =>
              content_parts[c] = Fragments(stream[c])
        /\ st[c] = "returned" => result[c] = PyStrip(Join(Fragments(stream[c])))
        /\ st[c] = "raised" => result[c] = <<>>

\* one call has returned the fragments of its own stream while the other,
\* running at the same time, holds different fragments of its own
C21_Witness ==
    /\ st["c1"] = "returned"
    /\ result["c1"] = <<"a", "a">>
    /\ st["c2"] = "streaming"
    /\ content_parts["c2"] = <<<<"b">>, <<"b">>>>

\* C30: only a timeout salvages fragments: a connection error raised by the
\* transport, also after fragments were accumulated, ends the call with the
\* connectivity error and no text, and any other exception of the transport
\* or of the parsing leaves the call as it is, with no text.
C30_SalvageOnlyOnTimeout ==
    \A c \in StreamCalls :
        /\ transport[c].exc = "ConnectionError" =>
              (st[c] = "raised" /\ error[c] = "connect" /\ result[c] = <<>>)
        /\ transport[c].exc \in {"HTTPError", "ChunkedEncodingError"} =>
              (st[c] = "raised" /\ error[c] = transport[c].exc /\ result[c] = <<>>)
        /\ HasBadLine(stream[c]) =>
              (st[c] = "raised" /\ error[c] = "JSONDecodeError" /\ result[c] = <<>>)
        /\ (st[c] = "returned" /\ transport[c].exc # "none") =>
              transport[c].exc = "Timeout"

\* the connection drops after two fragments
C30_Witness ==
    \E c \in StreamCalls :
        /\ transport[c] = [exc |-> "ConnectionError", at |-> "iter"]
        /\ Len(content_parts[c]) = 2
        /\ st[c] = "raised"
        /\ error[c] = "connect"

\* ------------------------------------------------------------------------
\* Properties of /api/ask's errors and of startup
\* ------------------------------------------------------------------------
\* C17: when the chat call of /api/ask fails, the detail the user gets tells
\* the kind of failure: "cannot reach the model" for a connection failure,
\* "model too slow" for a read timeout without fragments, "unexpected
\* format" for a response that cannot be parsed.
C17_ErrorKindsDistinguished ==
    \A c \in StreamCalls :
        detail[c] # <<>> =>
            /\ transport[c].exc = "ConnectionError" => detail[c] = CannotReachDetail
            /\ (transport[c].exc = "Timeout" /\ Fragments(stream[c]) = <<>>)
                  => detail[c] = TooSlowDetail
            /\ HasBadLine(stream[c]) => detail[c] = UnexpectedFormatDetail

\* What holds of the code: the connection failure and the timeout without
\* fragments are told apart.
ConnectAndTimeoutDistinguished ==
    \A c \in StreamCalls :
        detail[c] # <<>> =>
            /\ transport[c].exc = "ConnectionError" => detail[c] = CannotReachDetail
            /\ transport[c].exc = "Timeout" => detail[c] = TooSlowDetail
            /\ detail[c] = TooSlowDetail => transport[c].exc = "Timeout"

\* C18: warm_up never lets a failure of its chat call out, the warm_up task
\* does not run before the application is ready, and startup reaches
\* ready whatever the warm_up task does.
C18_WarmUpNeverBlocksStartup ==
    /\ [](warm # "propagated")
    /\ [](warm # "none" => app = "ready")
    /\ <>(app = "ready")

\* the application is ready and warm_up has logged a failed chat call that
\* was not a connection failure
C18_Witness ==
    /\ app = "ready"
    /\ warm = "warned"
    /\ \E c \in StreamCalls : st[c] = "raised" /\ error[c] = "JSONDecodeError"

\* ------------------------------------------------------------------------
\* Properties of VectorDB
\* ------------------------------------------------------------------------
\* the entries of a url's collection
Items(u) == collections[create_collection_name(u)].items

\* C6: add_documents overwrites: after any sequence of add_documents calls
\* for one pdf_url, each id chunk_i written by the latest call holds that
\* call's text and vector.
C6_UpsertOverwrites ==
    \A u \in PdfUrls :
        (lastAdd[u] # <<>> /\ Exists(create_collection_name(u))) =>
            \A i \in 1..Len(lastAdd[u]) :
                /\ (i - 1) \in DOMAIN Items(u)
                /\ Items(u)[i - 1].document = lastAdd[u][i]
                /\ Items(u)[i - 1].embedding = Embed(lastAdd[u][i])

\* The other half of C6 holds of the code: an add_documents that repeats the
\* last completed call for its pdf_url returns and leaves every collection
\* as it was.
RepeatedAddChangesNothing ==
    [][\A t \in Tasks :
          (/\ tpc[t] = "add_embed"
           /\ tpc'[t] = "idle"
           /\ tres'[t].status = "ok"
           /\ lastAdd[targ[t].pdf_url] = targ[t].chunks)
              => collections' = collections]_vars

\* C7: query_documents on a pdf_url whose collection is empty or does not
\* exist returns the empty result set and does not raise.
C7_EmptyQueryReturnsEmpty ==
    \A t \in Tasks :
        (tres[t].op = "query" /\ tres[t].pre \in {"absent", "empty"}) =>
            /\ tres[t].status = "ok"
            /\ tres[t].documents = <<>>
            /\ tres[t].distances = <<>>
            /\ tres[t].metadatas = <<>>

\* one query found no collection, another found an empty one
C7_Witness ==
    \E t1, t2 \in Tasks :
        /\ tres[t1].op = "query" /\ tres[t1].pre = "absent" /\ tres[t1].status = "ok"
        /\ tres[t2].op = "query" /\ tres[t2].pre = "empty" /\ tres[t2].status = "ok"

\* C8: a collection comes into existence only through add_documents: a
\* pdf_url add_documents was never called for has no collection.
C8_OnlyUpsertCreates ==
    \A u \in PdfUrls : Exists(create_collection_name(u)) => u \in upserted

\* ------------------------------------------------------------------------
\* Properties of answer_question
\* ------------------------------------------------------------------------
\* C12: when query_documents gives answer_question zero documents, the call
\* returns the fixed "insufficient context" answer with confidence "low" and
\* no sources, and ollama_client.chat is not called: no call is at the chat
\* await without a context.
C12_NoContextNoChat ==
    /\ \A t \in Tasks :
          (tres[t].op = "answer" /\ tres[t].retrieved = 0) =>
              /\ tres[t].status = "ok"
              /\ tres[t].value = "insufficient context"
              /\ tres[t].confidence = "low"
              /\ tres[t].documents = <<>>
              /\ ~tres[t].chat
    /\ \A t \in Tasks : tpc[t] = "chat" => targ[t].retrieved >= 1

\* one question found no collection, another found an empty one
C12_Witness ==
    \E t1, t2 \in Tasks :
        /\ tres[t1].op = "answer" /\ tres[t1].pre = "absent" /\ tres[t1].retrieved = 0
        /\ tres[t2].op = "answer" /\ tres[t2].pre = "empty" /\ tres[t2].retrieved = 0

\* C13: answer_question never returns confidence "high": it returns "low"
\* exactly when no context was retrieved and "medium" otherwise.
C13_ConfidenceNeverHigh ==
    \A t \in Tasks :
        (tres[t].op = "answer" /\ tres[t].status = "ok") =>
            /\ tres[t].confidence \in {"low", "medium"}
            /\ tres[t].confidence = "low" <=> tres[t].retrieved = 0
            /\ tres[t].confidence = "medium" <=> tres[t].retrieved >= 1

\* a question answered from two contexts out of a collection of three chunks
C13_Witness ==
    \E t \in Tasks :
        /\ tres[t].op = "answer" /\ tres[t].status = "ok"
        /\ tres[t].retrieved = 2
        /\ tres[t].confidence = "medium"
        /\ Exists(create_collection_name(tres[t].pdf_url))
        /\ Count(create_collection_name(tres[t].pdf_url)) >= 3

\* ------------------------------------------------------------------------
\* Properties of get_embeddings
\* ------------------------------------------------------------------------
\* a reply without the embedding field
LacksEmbedding(data) == "embedding" \notin DOMAIN data

\* get_embeddings keeps length and order: whenever it returns, it returns
\* one vector per text, and the i-th is the one the provider gave for the
\* i-th text (the empty vector where the remote reply lacked the field).
EmbeddingsKeepOrder ==
    \A t \in Tasks :
        tres[t].embedded =>
            /\ Len(tres[t].embeddings) = Len(tres[t].texts)
            /\ \A i \in 1..Len(tres[t].texts) :
                  tres[t].embeddings[i] =
                      IF embeddings_provider = "ollama"
                      THEN EmbeddingOf(tres[t].replies[i])
                      ELSE Embed(tres[t].texts[i])

\* C14: whenever get_embeddings returns, under either provider, it returns
\* exactly len(texts) vectors and the i-th vector is the embedding of the
\* i-th text.
C14_EmbeddingsOfTexts ==
    \A t \in Tasks :
        tres[t].embedded =>
            /\ Len(tres[t].embeddings) = Len(tres[t].texts)
            /\ \A i \in 1..Len(tres[t].texts) :
                  tres[t].embeddings[i] = Embed(tres[t].texts[i])

\* C15: when a reply of the remote embedding endpoint lacks the embedding
\* field, add_documents fails with the provider's failure, and no chunk is
\* ever held by a collection with an empty vector.
C15_MissingEmbeddingFailsAdd ==
    /\ \A t \in Tasks :
          (/\ tres[t].op = "add"
           /\ \E i \in 1..Len(tres[t].replies) : LacksEmbedding(tres[t].replies[i]))
              => (tres[t].status = "raised" /\ tres[t].value = "embedding error")
    /\ \A name \in DOMAIN collections :
          \A i \in DOMAIN collections[name].items :
              collections[name].items[i].embedding # <<>>

\* ------------------------------------------------------------------------
\* Properties of query_documents
\* ------------------------------------------------------------------------
\* C16: query_documents never asks the index for more items than the
\* collection holds, and returns at most n_results and at most count
\* documents, with as many distances and metadatas as documents.
C16_QueryClampsK ==
    \A t \in Tasks :
        /\ tres[t].asked <= tres[t].count
        /\ targ[t].asked <= targ[t].count
        /\ (tres[t].op = "query" /\ tres[t].status = "ok") =>
              /\ Len(tres[t].documents) <= tres[t].n_results
              /\ Len(tres[t].documents) <= tres[t].count
              /\ Len(tres[t].distances) = Len(tres[t].documents)
              /\ Len(tres[t].metadatas) = Len(tres[t].documents)

\* a query for five items on a collection of three returns the three
C16_Witness ==
    \E t \in Tasks :
        /\ tres[t].op = "query" /\ tres[t].status = "ok"
        /\ tres[t].n_results = 5
        /\ tres[t].count = 3
        /\ tres[t].asked = 3
        /\ Len(tres[t].documents) = 3

\* C19: add_documents calls for one pdf_url are serialized: no two of them
\* are ever both between their first and their last step.
C19_UpsertsSerialized ==
    \A t1, t2 \in Tasks :
        (t1 # t2 /\ tpc[t1] = "add_embed" /\ tpc[t2] = "add_embed")
            => targ[t1].pdf_url # targ[t2].pdf_url

ActingUrl(t) ==
    IF tpc[t] # "idle" THEN targ[t].pdf_url
    ELSE IF tpc'[t] # "idle" THEN targ'[t].pdf_url
    ELSE tres'[t].pdf_url

\* C26: operations on different pdf_urls are independent: no step of
\* add_documents, query_documents (answer_question's included),
\* delete_collection or collection_exists for one url changes whether the
\* collection of another url exists or what it holds, whatever the
\* interleaving of the calls.
C26_OtherCollectionsUntouched ==
    [][\A t \in Tasks :
          (tpc'[t] # tpc[t] \/ targ'[t] # targ[t] \/ tres'[t] # tres[t]) =>
              \A u \in PdfUrls \ {ActingUrl(t)} :
                  LET name == create_collection_name(u)
                  IN  /\ (name \in DOMAIN collections') = Exists(name)
                      /\ Exists(name) => collections'[name] = collections[name]]_vars

\* while an ingestion of one url awaits its embeddings, an ingestion of
\* another url has written and returned: each collection holds what its own
\* call gave it
C26_Witness ==
    /\ tpc["t1"] = "add_embed" /\ targ["t1"].pdf_url = "u1"
    /\ tres["t2"].op = "add" /\ tres["t2"].status = "ok" /\ tres["t2"].pdf_url = "u2"
    /\ DOMAIN Items("u1") = {}
    /\ DOMAIN Items("u2") = 0..1 /\ Items("u2")[0].document = "y"

\* C27: a failed add_documents leaves the index unchanged: when the call
\* raises, from the embeddings or from the write, the collection of its
\* pdf_url exists exactly if it existed when the call began.
C27_FailedAddLeavesExistence ==
    [][\A t \in Tasks :
          (tpc[t] = "add_embed" /\ tpc'[t] = "idle" /\ tres'[t].status = "raised") =>
              ((create_collection_name(tres'[t].pdf_url) \in DOMAIN collections')
                  <=> tres'[t].pre # "absent")]_vars

\* C28: of two concurrent requests to /api/ask for one pdf_url that is not
\* indexed yet and has at least one chunk, exactly one ingests, and none
\* answers that the context is insufficient while the other is ingesting.
C28_ConcurrentAsksIngestOnce ==
    \A t1, t2 \in Tasks :
        (/\ t1 # t2
         /\ tpc[t1] # "idle" /\ targ[t1].op = "ask"
         /\ targ[t1].ingest /\ targ[t1].chunks # <<>>) =>
            /\ (tpc[t2] # "idle" /\ targ[t2].op = "ask"
                    /\ targ[t2].pdf_url = targ[t1].pdf_url)
                  => ~targ[t2].ingest
            /\ (tpc[t2] = "idle" /\ tres[t2].op = "ask"
                    /\ tres[t2].pdf_url = targ[t1].pdf_url)
                  => tres[t2].value # "insufficient context"

\* the prompts posted so far are the first texts, each once and in order
PostedInOrder(a) ==
    /\ Len(a.requests) <= Len(a.texts)
    /\ a.requests = SubSeq(a.texts, 1, Len(a.requests))

\* C24: the remote embedding variant posts one request per text, in input
\* order and without retry: a call that returns has posted every text once
\* and gives one vector per text; a failure on the i-th text ends the call
\* with the exception, after exactly i posts (none for a later text), and
\* the caller gets no partial list of vectors.
C24_OneRequestPerTextNoRetry ==
    \A t \in Tasks :
        /\ tpc[t] = "embeddings" =>
              /\ PostedInOrder(targ[t])
              /\ Len(targ[t].embeddings) = Len(targ[t].requests)
              /\ Len(targ[t].requests) < Len(targ[t].texts)
        /\ (tres[t].op = "embeddings" /\ tres[t].status = "ok") =>
              /\ tres[t].requests = tres[t].texts
              /\ Len(tres[t].embeddings) = Len(tres[t].texts)
              /\ \A i \in 1..Len(tres[t].texts) :
                    tres[t].embeddings[i] = EmbeddingOf(tres[t].replies[i])
        /\ (tres[t].op = "embeddings" /\ tres[t].status = "raised") =>
              /\ PostedInOrder(tres[t])
              /\ Len(tres[t].requests) = Len(tres[t].replies) + 1
              /\ tres[t].embeddings = <<>>
              /\ ~tres[t].embedded

\* the post for the second of three texts failed: two posts were made, the
\* first one's vector is not handed out
C24_Witness ==
    \E t \in Tasks :
        /\ tres[t].op = "embeddings" /\ tres[t].status = "raised"
        /\ tres[t].texts = <<"x", "y", "x">>
        /\ tres[t].requests = <<"x", "y">>
        /\ tres[t].replies = <<[embedding |-> Embed("x")]>>

\* the first characters of a context, at most ContextLimit of them
Prefix(ctx) == [j \in 1..Min(Len(ctx), ContextLimit) |-> ctx[j]]

\* C25: the prompt is bounded: the messages given to chat are the system
\* message, at most the last two messages of the conversation in their
\* order, and one user message made of the numbered contexts, each cut to
\* its first 300 characters at most, and the question: two to four messages.
\* The sources returned are the contexts as retrieved, not cut.
C25_PromptBounded ==
    qa.pc \in {"chat", "returned", "raised"} /\ qa.contexts # <<>> =>
        LET m == qa.messages
            h == qa.history.list
            k == IF qa.history.given THEN Min(2, Len(h)) ELSE 0
        IN  /\ Len(m) = k + 2
            /\ Len(m) \in 2..4
            /\ m[1] = SystemMessage
            /\ \A j \in 1..k : m[1 + j] = h[Len(h) - k + j]
            /\ m[Len(m)].role = "user"
            /\ m[Len(m)].content =
                  JoinLines([i \in 1..Len(qa.contexts) |->
                                Numbered(i, Prefix(qa.contexts[i]))])
                      \o <<"\n", "\n", "Q", ":", " ">> \o qa.question
            /\ qa.pc = "returned" => qa.sources = qa.contexts

\* two contexts longer than the limit and a conversation of three
\* messages: four messages went to chat, and the sources are not cut
C25_Witness ==
    /\ qa.pc = "returned"
    /\ Len(qa.contexts) = 2
    /\ Len(qa.contexts[1]) > ContextLimit
    /\ Len(qa.contexts[2]) > Len(qa.contexts[1])
    /\ Len(qa.history.list) = 3
    /\ Len(qa.messages) = 4
    /\ qa.messages[2] # qa.messages[3]
    /\ Len(qa.sources[2]) > ContextLimit

\* chunk_text numbers the chunks it appends 0, 1, 2, ... in the order of
\* the list, whatever windows it skipped as empty
ChunkIdsConsecutive == \A k \in 1..Len(chunks) : chunks[k].chunk_id = k - 1

\* the first window, stripped to nothing, was skipped, and two chunks were
\* appended after it
SkippedThenAppended ==
    /\ cpc = "done"
    /\ Len(chunks) >= 2
    /\ chunks[1].start_pos > 0

\* the vector the provider computed for the i-th text of a call
VectorFor(r, i) ==
    IF embeddings_provider = "ollama" THEN EmbeddingOf(r.replies[i])
    ELSE Embed(r.texts[i])

====
